---- MODULE Spec2Model ----
(***************************************************************************)
(* State-machine model of drivers/gpu/drm/xlnx/drm_video_endpoint.c: the   *)
(* SDI transmit pipeline's property store, mode-set (timing derivation),   *)
(* enable and disable paths, at the granularity of one register access or  *)
(* one collaborator call per step.                                         *)
(***************************************************************************)
EXTENDS Integers, Sequences, FiniteSets, TLC

(***************************************************************************)
(* Register offsets and masks.                                             *)
(***************************************************************************)
RREG_IRQ_STATUS == 4

WREG_CORE_ENABLE == 0
WREG_AXI_S_VID_ENABLE == 4
WREG_IRQ_ENABLE == 8
WREG_IRQ_CLEAR == 12
WREG_IRQ_MASK == 16
WREG_SDI_BRIDGE_ENABLE == 20
WREG_SDI_MODE == 24
WREG_SDI_IS_FRAC == 28
WREG_SDI_FORMAT == 32

AXI_S_VID_LOCKED_INTR == 1
AXI_S_VID_OVERFLOW_INTR == 2
AXI_S_VID_UNDERFLOW_INTR == 4
\* the two bits are disjoint, so the bitwise or is their sum
IRQ_EN_MASK == AXI_S_VID_OVERFLOW_INTR + AXI_S_VID_UNDERFLOW_INTR

PIXELS_PER_CLK == 2

SDI_MODE_HD == 0
SDI_MODE_SD == 1
SDI_MODE_3GA == 2
SDI_MODE_3GB == 3
SDI_MODE_6G == 4
SDI_MODE_12G == 5

WriteRegs ==
  { WREG_CORE_ENABLE, WREG_AXI_S_VID_ENABLE, WREG_IRQ_ENABLE, WREG_IRQ_CLEAR,
    WREG_IRQ_MASK, WREG_SDI_BRIDGE_ENABLE, WREG_SDI_MODE, WREG_SDI_IS_FRAC,
    WREG_SDI_FORMAT }

(***************************************************************************)
(* Bounds of the model.                                                    *)
(***************************************************************************)
\* largest horizontal front porch, sync length and back porch (in pixels)
\* enumerated for the derivation
MaxPorch == 2
\* number of property sets explored in one behaviour
MaxSets == 2
\* the indeterminate values an uninitialized u32 may hold are drawn from
\* -1 .. MaxGarbage (taken modulo 2^32)
MaxGarbage == 1
\* the interrupt-status values the hardware presents are drawn from
\* 0 .. MaxStatus: every combination of the three condition bits, and a bit
\* above them
MaxStatus == 8

(***************************************************************************)
(* 32-bit unsigned values.  TLC's integers are 32-bit signed, so a u32 is  *)
(* held as its two 16-bit halves; U32(x) is x modulo 2^32.                 *)
(***************************************************************************)
Half == 256 * 256

U32(x) == [hi |-> (x \div Half) % Half, lo |-> x % Half]

\* the number a u32 holds; only applied to values below 2^31
Val(u) == u.hi * Half + u.lo

\* C integer division truncates toward zero
CDiv(a, b) == IF a >= 0 THEN a \div b ELSE -((-a) \div b)

(***************************************************************************)
(* Display modes (struct drm_display_mode, the fields the driver reads).   *)
(***************************************************************************)
DRM_MODE_FLAGS == {"INTERLACE", "PHSYNC", "PVSYNC"}

MkMode(clock, h, v, flags, vrefresh) ==
  [clock |-> clock,
   hdisplay |-> h[1], hsync_start |-> h[2], hsync_end |-> h[3], htotal |-> h[4],
   vdisplay |-> v[1], vsync_start |-> v[2], vsync_end |-> v[3], vtotal |-> v[4],
   flags |-> flags, vrefresh |-> vrefresh]

ZeroMode == MkMode(0, <<0, 0, 0, 0>>, <<0, 0, 0, 0>>, {}, 0)

\* horizontal timing of the 3840x2160 mode
H2160 == <<3840, 3888, 3920, 4016>>
V2160 == <<2160, 2168, 2176, 2222>>
H1080 == <<1920, 2008, 2052, 2200>>
V1080 == <<1080, 1084, 1094, 1125>>

\* the table of SDI-standard modes searched by (hdisplay, vdisplay, vrefresh)
xlnx_sdi_modes ==
  << MkMode(594000, H2160, V2160, {"PHSYNC", "PVSYNC"}, 60),
     MkMode(74250, H1080, V1080, {"INTERLACE", "PHSYNC", "PVSYNC"}, 50) >>

(***************************************************************************)
(* The display modes handed to mode-set.  Every one is a valid timing:     *)
(* hdisplay <= hsync_start <= hsync_end <= htotal, and likewise vertically.*)
(***************************************************************************)
HTiming(hd, fp, sl, bp) == <<hd, hd + fp, hd + fp + sl, hd + fp + sl + bp>>

\* (vdisplay, vsync_start, vsync_end, vtotal); the interlaced line counts
\* 1125, 625 and 525, with vsync_end below and above the field length, and
\* line counts outside the interlaced table
VTimings ==
  { V2160, V1080, <<540, 542, 547, 1125>>, <<288, 290, 293, 625>>,
    <<240, 243, 246, 525>>, <<720, 725, 730, 750>> }

HDisplays == {1920, 1921}

HTimings ==
  { HTiming(hd, fp, sl, bp) :
      hd \in HDisplays, fp \in 0..MaxPorch, sl \in 0..MaxPorch, bp \in 0..MaxPorch }
  \cup {H2160}

\* the modes of the derivation specification
DeriveTimings ==
  { MkMode(IF h = H2160 THEN 594000 ELSE 74250, h, v, f, 60) :
      h \in HTimings, v \in VTimings, f \in SUBSET DRM_MODE_FLAGS }

\* the modes of the pipeline specification
Timings ==
  { MkMode(594000, H2160, V2160, {"PHSYNC"}, 60),
    MkMode(74250, HTiming(1280, 1, 1, 1), <<720, 725, 730, 750>>, {"INTERLACE"}, 60) }

(***************************************************************************)
(* The timing derivation of drm_vid_ep_encoder_atomic_mode_set.            *)
(***************************************************************************)
\* the indeterminate contents of an uninitialized u32 on the stack
StackValues == { U32(g) : g \in -1..MaxGarbage }

\* faulty variant: the interlaced table forgotten, every mode treated as
\* progressive
vback_porch_no_table(m, garbage) == U32(m.vtotal - m.vsync_end)

\* vm.vback_porch: assigned on four of the five paths; on the fifth the
\* local keeps whatever the stack held (garbage)
vback_porch(m, garbage) ==
  IF "INTERLACE" \in m.flags
    THEN IF m.vtotal = 1125 THEN U32(562 - m.vsync_end)
         ELSE IF m.vtotal = 625 THEN U32(312 - m.vsync_end)
         ELSE IF m.vtotal = 525 THEN U32(262 - m.vsync_end)
         ELSE garbage
    ELSE U32(m.vtotal - m.vsync_end)

vm_flags(m) ==
  (IF "INTERLACE" \in m.flags THEN {"INTERLACED"} ELSE {})
  \cup (IF "PHSYNC" \in m.flags THEN {"HSYNC_LOW"} ELSE {})
  \cup (IF "PVSYNC" \in m.flags THEN {"VSYNC_LOW"} ELSE {})

\* faulty variant: the active width rounded up to whole clocks
vm_init_rounded_up(m, garbage) ==
  [hactive |-> U32(CDiv(m.hdisplay + 1, PIXELS_PER_CLK)),
   hfront_porch |-> U32(CDiv(m.hsync_start - m.hdisplay, PIXELS_PER_CLK)),
   hback_porch |-> U32(CDiv(m.htotal - m.hsync_end, PIXELS_PER_CLK)),
   hsync_len |-> U32(CDiv(m.hsync_end - m.hsync_start, PIXELS_PER_CLK)),
   vactive |-> U32(m.vdisplay),
   vfront_porch |-> U32(m.vsync_start - m.vdisplay),
   vback_porch |-> vback_porch(m, garbage),
   vsync_len |-> U32(m.vsync_end - m.vsync_start),
   flags |-> vm_flags(m),
   pixelclock |-> 0]

\* the assignments to vm before the compensation loop
vm_init(m, garbage) ==
  [hactive |-> U32(CDiv(m.hdisplay, PIXELS_PER_CLK)),
   hfront_porch |-> U32(CDiv(m.hsync_start - m.hdisplay, PIXELS_PER_CLK)),
   hback_porch |-> U32(CDiv(m.htotal - m.hsync_end, PIXELS_PER_CLK)),
   hsync_len |-> U32(CDiv(m.hsync_end - m.hsync_start, PIXELS_PER_CLK)),
   vactive |-> U32(m.vdisplay),
   vfront_porch |-> U32(m.vsync_start - m.vdisplay),
   vback_porch |-> vback_porch(m, garbage),
   vsync_len |-> U32(m.vsync_end - m.vsync_start),
   flags |-> vm_flags(m),
   pixelclock |-> 0]

\* faulty variant: the sync length left out of the source blanking
sditx_blank_no_sync(m) ==
  U32((m.hsync_start - m.hdisplay) + (m.htotal - m.hsync_end))

sditx_blank(m) ==
  U32((m.hsync_start - m.hdisplay) + (m.hsync_end - m.hsync_start)
      + (m.htotal - m.hsync_end))

\* faulty variant: the derived blanking not scaled back to native pixels
vtc_blank_unscaled(v) ==
  U32(Val(v.hfront_porch) + Val(v.hback_porch) + Val(v.hsync_len))

vtc_blank(v) ==
  U32((Val(v.hfront_porch) + Val(v.hback_porch) + Val(v.hsync_len)) * PIXELS_PER_CLK)

\* faulty variant: the loop left as soon as the incremented blanking reaches
\* the source blanking
RECURSIVE blank_loop_recomputed(_, _, _)
blank_loop_recomputed(m, v, n) ==
  LET w == IF vtc_blank(v) # sditx_blank(m)
             THEN [v EXCEPT !.hfront_porch = U32(Val(@) + 1)]
             ELSE v
  IN  IF Val(vtc_blank(w)) < Val(sditx_blank(m))
        THEN blank_loop_recomputed(m, w, n + 1)
        ELSE [vm |-> w, iters |-> n + 1]

\* faulty variant: no compensation, the truncated porches pushed as they are
blank_loop_none(m, v, n) == [vm |-> v, iters |-> n + 1]

\* the do-while loop; n counts the executions of its body so far
RECURSIVE blank_loop(_, _, _)
blank_loop(m, v, n) ==
  LET vtc == vtc_blank(v)
      w == IF vtc # sditx_blank(m)
             THEN [v EXCEPT !.hfront_porch = U32(Val(@) + 1)]
             ELSE v
  IN  IF Val(vtc) < Val(sditx_blank(m))
        THEN blank_loop(m, w, n + 1)
        ELSE [vm |-> w, iters |-> n + 1]

\* the whole derivation: the record pushed to the timing generator and the
\* number of loop iterations it took
derive(m, garbage) ==
  LET r == blank_loop(m, vm_init(m, garbage), 0)
  IN  [vm |-> [r.vm EXCEPT !.pixelclock = m.clock * 1000], iters |-> r.iters]

ZeroVm == vm_init(ZeroMode, U32(0))

(***************************************************************************)
(* The connector properties (drm_vid_ep_drm_connector_create_property).    *)
(***************************************************************************)
Properties ==
  { "sdi_mode", "sdi_data_strm", "sdi_420_in", "sdi_420_out", "is_frac_prop",
    "height_out", "width_out", "in_fmt", "out_fmt" }

\* values of each property's declared range that a property set delivers
PropValues(p) ==
  CASE p = "sdi_mode" -> 0..5
    [] p = "sdi_data_strm" -> {3, 8}
    [] p \in {"sdi_420_in", "sdi_420_out", "is_frac_prop"} -> {0, 1}
    [] p = "height_out" -> {2, 2160}
    [] p = "width_out" -> {2, 3840}
    [] p \in {"in_fmt", "out_fmt"} -> {0, 16384}

\* a uint64_t property value, held as its two 32-bit words: hi * 2^32 + lo
U64(hi, lo) == [hi |-> hi, lo |-> lo]

\* (unsigned int)val: the low word
Trunc32(val) == val.lo

\* faulty variant: the value truncated to 32 bits before it is tested
ToBool_of_low_word(val) == IF val.lo # 0 THEN 1 ELSE 0

\* conversion to bool: whether any bit of the 64 is set
ToBool(val) == IF val.hi # 0 \/ val.lo # 0 THEN 1 ELSE 0

\* errno of a property handle that is none of the device's
EINVAL == 22

\* the stored parameters after drm_vid_ep_atomic_set_property(property, val)
drm_vid_ep_atomic_set_property(ps, p, val) ==
  CASE p = "sdi_mode" -> [ps EXCEPT !.sdi_mod_prop_val = Trunc32(val)]
    [] p = "sdi_data_strm" -> [ps EXCEPT !.sdi_data_strm_prop_val = Trunc32(val)]
    [] p = "sdi_420_in" -> [ps EXCEPT !.sdi_420_in_val = ToBool(val)]
    [] p = "sdi_420_out" -> [ps EXCEPT !.sdi_420_out_val = ToBool(val)]
    [] p = "is_frac_prop" -> [ps EXCEPT !.is_frac_prop_val = ToBool(val)]
    [] p = "height_out" -> [ps EXCEPT !.height_out_prop_val = Trunc32(val)]
    [] p = "width_out" -> [ps EXCEPT !.width_out_prop_val = Trunc32(val)]
    [] p = "in_fmt" -> [ps EXCEPT !.in_fmt_prop_val = Trunc32(val)]
    [] p = "out_fmt" -> [ps EXCEPT !.out_fmt_prop_val = Trunc32(val)]
    [] OTHER -> ps

\* what drm_vid_ep_atomic_set_property and drm_vid_ep_atomic_get_property
\* return for a property handle
property_ret(p) == IF p \in Properties THEN 0 ELSE -EINVAL

\* *val after drm_vid_ep_atomic_get_property(property, val): the stored
\* field widened to 64 bits, or what the caller had there (old)
drm_vid_ep_atomic_get_property(ps, p, old) ==
  CASE p = "sdi_mode" -> U64(0, ps.sdi_mod_prop_val)
    [] p = "sdi_data_strm" -> U64(0, ps.sdi_data_strm_prop_val)
    [] p = "sdi_420_in" -> U64(0, ps.sdi_420_in_val)
    [] p = "sdi_420_out" -> U64(0, ps.sdi_420_out_val)
    [] p = "is_frac_prop" -> U64(0, ps.is_frac_prop_val)
    [] p = "height_out" -> U64(0, ps.height_out_prop_val)
    [] p = "width_out" -> U64(0, ps.width_out_prop_val)
    [] p = "in_fmt" -> U64(0, ps.in_fmt_prop_val)
    [] p = "out_fmt" -> U64(0, ps.out_fmt_prop_val)
    [] OTHER -> old

(***************************************************************************)
(* State.                                                                  *)
(***************************************************************************)
VARIABLES
  has_bridge,   \* drm_ep->bridge is not NULL
  props,        \* the *_prop_val / *_val fields of struct drm_vid_ep
  nsets,        \* property calls so far, of those that are counted
  regs,         \* the device's write registers, by offset
  bridge,       \* the external bridge: input, output, enabled
  stc,          \* the timing generator: enabled, fsync, pushed signal record
  video_mode,   \* drm_ep->video_mode, read by the audio driver
  am,           \* adjusted_mode of the mode-set in progress or last done
  vm,           \* the local struct videomode of mode-set
  loop_iters,   \* executions of the compensation loop's body in that mode-set
  pc,           \* what the display framework's call path executes next
  op,           \* the encoder operation in progress or last done
  trace,        \* register writes and collaborator calls of that operation
  irq_pc,       \* where the threaded interrupt handler is
  irq_reg,      \* the handler's local reg: the status it read
  irq_trace,    \* register accesses of the handler's current or last run
  recording,    \* whether the two observers below are kept
  call,         \* observer: the inputs the operation was called with
  prev,         \* observer: the operation before it, as it ended
  prop_call,    \* the last property call: its arguments, return value, *val
  prop_prev,    \* observer: the property call before it
  last_op       \* observer: the most recent of probe, configure, disable
                \* and detach

vars ==
  << has_bridge, props, nsets, regs, bridge, stc, video_mode, am, vm,
     loop_iters, pc, op, trace, irq_pc, irq_reg, irq_trace, recording, call,
     prev, prop_call, prop_prev, last_op >>

\* the interrupt handler's variables
irq_vars == << irq_pc, irq_reg, irq_trace >>

\* the variables of the property calls that return a value
prop_vars == << prop_call, prop_prev >>

\* a register write, and a call of a timing-generator or bridge function
W(reg, val) == [op |-> "writel", reg |-> reg, val |-> val]

\* a register read and the value it returned
R(reg, val) == [op |-> "readl", reg |-> reg, val |-> val]

Call(fn) == [op |-> fn, reg |-> -1, val |-> 0]

\* a call of a bridge function that is handed values
CallWith(fn, args) == [op |-> fn, reg |-> -1, val |-> args]

drm_vid_ep_writel(r, offset, val) == [r EXCEPT ![offset] = val]

\* the property values of the kzalloc'ed device structure
ZeroProps ==
  [sdi_mod_prop_val |-> 0, sdi_data_strm_prop_val |-> 0,
   sdi_420_in_val |-> 0, sdi_420_out_val |-> 0,
   is_frac_prop_val |-> 0, height_out_prop_val |-> 0,
   width_out_prop_val |-> 0, in_fmt_prop_val |-> 0,
   out_fmt_prop_val |-> 0]

\* no operation yet
NoCall == [dm |-> ZeroMode, props |-> ZeroProps]

\* no property call yet
NoPropCall ==
  [fn |-> "none", property |-> "none", val |-> U64(0, 0), ret |-> 0,
   out |-> U64(0, 0), before |-> ZeroProps]

NoPrev ==
  [op |-> "none", call |-> NoCall, trace |-> << >>,
   regs |-> [r \in WriteRegs |-> 0], am |-> ZeroMode]

\* after probe: kzalloc'ed device structure, registers in their reset state,
\* interrupt enable cleared, handler registered and not running
InitDevice ==
  /\ has_bridge \in BOOLEAN
  /\ props = ZeroProps
  /\ nsets = 0
  /\ regs = drm_vid_ep_writel([r \in WriteRegs |-> 0], WREG_IRQ_ENABLE, 0)
  /\ bridge = [input |-> <<0, 0, 0>>, output |-> <<0, 0, 0>>, enabled |-> 0]
  /\ stc = [enabled |-> 0, fsync |-> 0, sig |-> ZeroVm]
  /\ video_mode = [hdisplay |-> 0, vdisplay |-> 0, vrefresh |-> 0, flags |-> {}]
  /\ am = ZeroMode
  /\ vm = ZeroVm
  /\ loop_iters = 0
  /\ pc = "idle"
  /\ op = "none"
  /\ trace = << >>
  /\ irq_pc = "idle"
  /\ irq_reg = 0
  /\ irq_trace = << >>
  /\ call = NoCall
  /\ prev = NoPrev
  /\ prop_call = NoPropCall
  /\ prop_prev = NoPropCall
  /\ last_op = "probe"

Init == InitDevice /\ recording = FALSE

\* what an operation's entry notes for the observers: its own inputs, and
\* the operation that ended before it
Record(dm) ==
  /\ IF recording
       THEN /\ call' = [dm |-> dm, props |-> props]
            /\ prev' = [op |-> op, call |-> call, trace |-> trace,
                        regs |-> regs, am |-> am]
       ELSE UNCHANGED << call, prev >>
  /\ last_op' = IF recording /\ op' # "commit" THEN op' ELSE last_op
  /\ UNCHANGED << recording, irq_vars, prop_vars >>

\* one step of the operation in progress: the register file, the trace and
\* the position move; the caller says what else changes
Step(from, to, events, newregs) ==
  /\ pc = from
  /\ pc' = to
  /\ trace' = trace \o events
  /\ regs' = newregs
  /\ UNCHANGED << has_bridge, props, nsets, op, irq_vars, recording, call, prev,
                  prop_vars, last_op >>

(***************************************************************************)
(* Property set.                                                           *)
(***************************************************************************)
SetProperty ==
  /\ pc = "idle"
  /\ nsets < MaxSets
  /\ \E p \in Properties : \E val \in PropValues(p) :
       props' = drm_vid_ep_atomic_set_property(props, p, U64(0, val))
  /\ nsets' = nsets + 1
  /\ UNCHANGED << has_bridge, regs, bridge, stc, video_mode, am, vm,
                  loop_iters, pc, op, trace, irq_vars, recording, call, prev,
                  prop_vars, last_op >>

(***************************************************************************)
(* The collaborators: the external bridge, whose functions accept a NULL   *)
(* bridge and then do nothing, and the timing generator.                   *)
(***************************************************************************)
xlnx_bridge_set_input(b, hb, width, height, fmt) ==
  IF hb THEN [b EXCEPT !.input = <<width, height, fmt>>] ELSE b

xlnx_bridge_set_output(b, hb, width, height, fmt) ==
  IF hb THEN [b EXCEPT !.output = <<width, height, fmt>>] ELSE b

xlnx_bridge_enable(b, hb) == IF hb THEN [b EXCEPT !.enabled = 1] ELSE b

xlnx_bridge_disable(b, hb) == IF hb THEN [b EXCEPT !.enabled = 0] ELSE b

xlnx_stc_reset(t) == [t EXCEPT !.enabled = 0]

xlnx_stc_sig(t, v) == [t EXCEPT !.sig = v]

xlnx_stc_enable(t) == [t EXCEPT !.enabled = 1]

xlnx_stc_disable(t) == [t EXCEPT !.enabled = 0]

xlnx_stc_fsync_enable(t) == [t EXCEPT !.fsync = 1]

xlnx_stc_fsync_disable(t) == [t EXCEPT !.fsync = 0]

(***************************************************************************)
(* The canonical-timing substitution of mode-set: the first table entry    *)
(* with the output width and height and the mode's refresh rate replaces   *)
(* the mode's clock, blanking and sync fields and flags.                   *)
(***************************************************************************)
sdi_mode_matches(e, m, ps) ==
  /\ e.hdisplay = ps.width_out_prop_val
  /\ e.vdisplay = ps.height_out_prop_val
  /\ e.vrefresh = m.vrefresh

\* faulty variant: the table searched also when there is no bridge
sdi_mode_found_without_bridge(m, ps, hb) ==
  \E i \in 1..Len(xlnx_sdi_modes) : sdi_mode_matches(xlnx_sdi_modes[i], m, ps)

sdi_mode_found(m, ps, hb) ==
  hb /\ \E i \in 1..Len(xlnx_sdi_modes) : sdi_mode_matches(xlnx_sdi_modes[i], m, ps)

sdi_mode_first(m, ps) ==
  LET i == CHOOSE k \in 1..Len(xlnx_sdi_modes) :
             /\ sdi_mode_matches(xlnx_sdi_modes[k], m, ps)
             /\ \A j \in 1..(k - 1) : ~sdi_mode_matches(xlnx_sdi_modes[j], m, ps)
  IN  xlnx_sdi_modes[i]

sdi_mode_memcpy(m, e) ==
  [m EXCEPT !.clock = e.clock,
            !.hsync_start = e.hsync_start, !.hsync_end = e.hsync_end,
            !.htotal = e.htotal,
            !.vsync_start = e.vsync_start, !.vsync_end = e.vsync_end,
            !.vtotal = e.vtotal, !.flags = e.flags]

(***************************************************************************)
(* drm_vid_ep_set_sdi_mode: the values written to the mode-select and      *)
(* fractional-rate registers.                                              *)
(***************************************************************************)
\* faulty variant: 3G-B given its own register code
sdi_mode_code_3gb(mode) ==
  CASE mode = SDI_MODE_SD -> 1
    [] mode = SDI_MODE_HD -> 0
    [] mode = SDI_MODE_3GA -> 2
    [] mode = SDI_MODE_3GB -> 3
    [] mode = SDI_MODE_6G -> 4
    [] mode = SDI_MODE_12G -> 5
    [] OTHER -> 0

sdi_mode_code(mode) ==
  CASE mode = SDI_MODE_SD -> 1
    [] mode = SDI_MODE_HD -> 0
    [] mode = SDI_MODE_3GA -> 2
    [] mode = SDI_MODE_6G -> 4
    [] mode = SDI_MODE_12G -> 5
    [] OTHER -> 0

is_frac_code(is_frac) == IF is_frac # 0 THEN 1 ELSE 0

(***************************************************************************)
(* drm_vid_ep_encoder_atomic_mode_set (configure), step by step.           *)
(***************************************************************************)
\* the call: adjusted_mode is the caller's, vm is a fresh local
drm_vid_ep_encoder_atomic_mode_set(dm) ==
  /\ pc = "idle"
  /\ pc' = "set_input"
  /\ op' = "configure"
  /\ trace' = << >>
  /\ am' = dm
  /\ vm' = ZeroVm
  /\ loop_iters' = 0
  /\ Record(dm)
  /\ UNCHANGED << has_bridge, props, nsets, regs, bridge, stc, video_mode >>

ModeSetBridgeInput ==
  /\ Step("set_input", "set_output",
          << CallWith("xlnx_bridge_set_input",
                      << am.hdisplay, am.vdisplay, props.in_fmt_prop_val >>) >>,
          regs)
  /\ bridge' = xlnx_bridge_set_input(bridge, has_bridge, am.hdisplay, am.vdisplay,
                                     props.in_fmt_prop_val)
  /\ UNCHANGED << stc, video_mode, am, vm, loop_iters >>

ModeSetBridgeOutput ==
  /\ Step("set_output", "bridge_enable",
          << CallWith("xlnx_bridge_set_output",
                      << props.width_out_prop_val, props.height_out_prop_val,
                         props.out_fmt_prop_val >>) >>,
          regs)
  /\ bridge' = xlnx_bridge_set_output(bridge, has_bridge, props.width_out_prop_val,
                                      props.height_out_prop_val,
                                      props.out_fmt_prop_val)
  /\ UNCHANGED << stc, video_mode, am, vm, loop_iters >>

\* faulty variant: the canonical-timing substitution skipped
ModeSetBridgeEnable_no_canonical ==
  /\ Step("bridge_enable", "irq_mask", << Call("xlnx_bridge_enable") >>, regs)
  /\ bridge' = xlnx_bridge_enable(bridge, has_bridge)
  /\ UNCHANGED << stc, video_mode, am, vm, loop_iters >>

ModeSetBridgeEnable ==
  /\ Step("bridge_enable", "memcpy", << Call("xlnx_bridge_enable") >>, regs)
  /\ bridge' = xlnx_bridge_enable(bridge, has_bridge)
  /\ UNCHANGED << stc, video_mode, am, vm, loop_iters >>

ModeSetCanonical ==
  /\ IF sdi_mode_found(am, props, has_bridge)
       THEN /\ Step("memcpy", "irq_mask", << Call("memcpy") >>, regs)
            /\ am' = sdi_mode_memcpy(am, sdi_mode_first(am, props))
       ELSE /\ Step("memcpy", "irq_mask", << >>, regs)
            /\ am' = am
  /\ UNCHANGED << bridge, stc, video_mode, vm, loop_iters >>

\* drm_vid_ep_setup
SetupIrqMask ==
  /\ Step("irq_mask", "irq_enable", << W(WREG_IRQ_MASK, IRQ_EN_MASK) >>,
          drm_vid_ep_writel(regs, WREG_IRQ_MASK, IRQ_EN_MASK))
  /\ UNCHANGED << bridge, stc, video_mode, am, vm, loop_iters >>

\* faulty variant: interrupts enabled only when they are not enabled yet
SetupIrqEnable_if_changed ==
  /\ Step("irq_enable", "stc_reset",
          IF regs[WREG_IRQ_ENABLE] = 1 THEN << >> ELSE << W(WREG_IRQ_ENABLE, 1) >>,
          drm_vid_ep_writel(regs, WREG_IRQ_ENABLE, 1))
  /\ UNCHANGED << bridge, stc, video_mode, am, vm, loop_iters >>

SetupIrqEnable ==
  /\ Step("irq_enable", "stc_reset", << W(WREG_IRQ_ENABLE, 1) >>,
          drm_vid_ep_writel(regs, WREG_IRQ_ENABLE, 1))
  /\ UNCHANGED << bridge, stc, video_mode, am, vm, loop_iters >>

SetupStcReset ==
  /\ Step("stc_reset", "sdi_mode", << Call("xlnx_stc_reset") >>, regs)
  /\ stc' = xlnx_stc_reset(stc)
  /\ UNCHANGED << bridge, video_mode, am, vm, loop_iters >>

\* drm_vid_ep_set_config_parameters -> drm_vid_ep_set_sdi_mode
SetSdiMode ==
  /\ Step("sdi_mode", "is_frac",
          << W(WREG_SDI_MODE, sdi_mode_code(props.sdi_mod_prop_val)) >>,
          drm_vid_ep_writel(regs, WREG_SDI_MODE,
                            sdi_mode_code(props.sdi_mod_prop_val)))
  /\ UNCHANGED << bridge, stc, video_mode, am, vm, loop_iters >>

SetSdiIsFrac ==
  /\ Step("is_frac", "derive",
          << W(WREG_SDI_IS_FRAC, is_frac_code(props.is_frac_prop_val)) >>,
          drm_vid_ep_writel(regs, WREG_SDI_IS_FRAC,
                            is_frac_code(props.is_frac_prop_val)))
  /\ UNCHANGED << bridge, stc, video_mode, am, vm, loop_iters >>

\* the derivation into the local vm, whose vback_porch starts indeterminate
ModeSetDerive ==
  /\ Step("derive", "video_mode", << >>, regs)
  /\ \E garbage \in StackValues :
       /\ vm' = derive(am, garbage).vm
       /\ loop_iters' = derive(am, garbage).iters
  /\ UNCHANGED << bridge, stc, video_mode, am >>

\* faulty variant: the flags left out of the snapshot
ModeSetVideoMode_no_flags ==
  /\ Step("video_mode", "stc_sig", << >>, regs)
  /\ video_mode' = [hdisplay |-> am.hdisplay, vdisplay |-> am.vdisplay,
                    vrefresh |-> am.vrefresh, flags |-> video_mode.flags]
  /\ UNCHANGED << bridge, stc, am, vm, loop_iters >>

\* parameters for sdi audio
ModeSetVideoMode ==
  /\ Step("video_mode", "stc_sig", << >>, regs)
  /\ video_mode' = [hdisplay |-> am.hdisplay, vdisplay |-> am.vdisplay,
                    vrefresh |-> am.vrefresh, flags |-> am.flags]
  /\ UNCHANGED << bridge, stc, am, vm, loop_iters >>

ModeSetStcSig ==
  /\ Step("stc_sig", "idle", << Call("xlnx_stc_sig") >>, regs)
  /\ stc' = xlnx_stc_sig(stc, vm)
  /\ UNCHANGED << bridge, video_mode, am, vm, loop_iters >>

ModeSetSteps ==
  \/ ModeSetBridgeInput
  \/ ModeSetBridgeOutput
  \/ ModeSetBridgeEnable
  \/ ModeSetCanonical
  \/ SetupIrqMask
  \/ SetupIrqEnable
  \/ SetupStcReset
  \/ SetSdiMode
  \/ SetSdiIsFrac
  \/ ModeSetDerive
  \/ ModeSetVideoMode
  \/ ModeSetStcSig

(***************************************************************************)
(* drm_vid_ep_commit (enable), step by step.                               *)
(***************************************************************************)
drm_vid_ep_commit ==
  /\ pc = "idle"
  /\ pc' = "core_enable"
  /\ op' = "commit"
  /\ trace' = << >>
  /\ Record(ZeroMode)
  /\ UNCHANGED << has_bridge, props, nsets, regs, bridge, stc, video_mode, am,
                  vm, loop_iters >>

\* faulty variant: the timing generator enabled right after the core, the
\* bridge enable left out
CommitDisplayEnable_no_bridge ==
  /\ Step("core_enable", "stc_enable", << W(WREG_CORE_ENABLE, 1) >>,
          drm_vid_ep_writel(regs, WREG_CORE_ENABLE, 1))
  /\ UNCHANGED << bridge, stc, video_mode, am, vm, loop_iters >>

\* drm_vid_ep_set_display_enable
CommitDisplayEnable ==
  /\ Step("core_enable", "sdi_bridge_enable", << W(WREG_CORE_ENABLE, 1) >>,
          drm_vid_ep_writel(regs, WREG_CORE_ENABLE, 1))
  /\ UNCHANGED << bridge, stc, video_mode, am, vm, loop_iters >>

\* drm_vid_ep_enable_sdi_bridge
CommitEnableSdiBridge ==
  /\ Step("sdi_bridge_enable", "stc_enable", << W(WREG_SDI_BRIDGE_ENABLE, 1) >>,
          drm_vid_ep_writel(regs, WREG_SDI_BRIDGE_ENABLE, 1))
  /\ UNCHANGED << bridge, stc, video_mode, am, vm, loop_iters >>

CommitStcEnable ==
  /\ Step("stc_enable", "fsync_enable", << Call("xlnx_stc_enable") >>, regs)
  /\ stc' = xlnx_stc_enable(stc)
  /\ UNCHANGED << bridge, video_mode, am, vm, loop_iters >>

CommitFsyncEnable ==
  /\ Step("fsync_enable", "axi4s_enable", << Call("xlnx_stc_fsync_enable") >>, regs)
  /\ stc' = xlnx_stc_fsync_enable(stc)
  /\ UNCHANGED << bridge, video_mode, am, vm, loop_iters >>

\* drm_vid_ep_enable_axi4s
CommitEnableAxi4s ==
  /\ Step("axi4s_enable", "idle", << W(WREG_AXI_S_VID_ENABLE, 1) >>,
          drm_vid_ep_writel(regs, WREG_AXI_S_VID_ENABLE, 1))
  /\ UNCHANGED << bridge, stc, video_mode, am, vm, loop_iters >>

CommitSteps ==
  \/ CommitDisplayEnable
  \/ CommitEnableSdiBridge
  \/ CommitStcEnable
  \/ CommitFsyncEnable
  \/ CommitEnableAxi4s

(***************************************************************************)
(* drm_vid_ep_disable, step by step.                                       *)
(***************************************************************************)
drm_vid_ep_disable ==
  /\ pc = "idle"
  /\ pc' = "bridge_disable"
  /\ op' = "disable"
  /\ trace' = << >>
  /\ Record(ZeroMode)
  /\ UNCHANGED << has_bridge, props, nsets, regs, bridge, stc, video_mode, am,
                  vm, loop_iters >>

\* if (drm_ep->bridge) xlnx_bridge_disable(drm_ep->bridge)
DisableBridge ==
  /\ Step("bridge_disable", "irq_disable",
          IF has_bridge THEN << Call("xlnx_bridge_disable") >> ELSE << >>, regs)
  /\ bridge' = xlnx_bridge_disable(bridge, has_bridge)
  /\ UNCHANGED << stc, video_mode, am, vm, loop_iters >>

\* drm_vid_ep_set_display_disable: two writes
DisableIrq ==
  /\ Step("irq_disable", "core_disable", << W(WREG_IRQ_ENABLE, 0) >>,
          drm_vid_ep_writel(regs, WREG_IRQ_ENABLE, 0))
  /\ UNCHANGED << bridge, stc, video_mode, am, vm, loop_iters >>

\* faulty variant: the core-enable bit cleared only when it is set
DisableCore_if_enabled ==
  /\ Step("core_disable", "axi4s_disable",
          IF regs[WREG_CORE_ENABLE] = 0 THEN << >> ELSE << W(WREG_CORE_ENABLE, 0) >>,
          drm_vid_ep_writel(regs, WREG_CORE_ENABLE, 0))
  /\ UNCHANGED << bridge, stc, video_mode, am, vm, loop_iters >>

DisableCore ==
  /\ Step("core_disable", "axi4s_disable", << W(WREG_CORE_ENABLE, 0) >>,
          drm_vid_ep_writel(regs, WREG_CORE_ENABLE, 0))
  /\ UNCHANGED << bridge, stc, video_mode, am, vm, loop_iters >>

\* faulty variant: frame-sync disabled right after the serializer, the bridge
\* disable left out
DisableAxi4s_no_bridge ==
  /\ Step("axi4s_disable", "fsync_disable", << W(WREG_AXI_S_VID_ENABLE, 0) >>,
          drm_vid_ep_writel(regs, WREG_AXI_S_VID_ENABLE, 0))
  /\ UNCHANGED << bridge, stc, video_mode, am, vm, loop_iters >>

\* drm_vid_ep_disable_axi4s
DisableAxi4s ==
  /\ Step("axi4s_disable", "sdi_bridge_disable", << W(WREG_AXI_S_VID_ENABLE, 0) >>,
          drm_vid_ep_writel(regs, WREG_AXI_S_VID_ENABLE, 0))
  /\ UNCHANGED << bridge, stc, video_mode, am, vm, loop_iters >>

\* drm_vid_ep_disable_sdi_bridge
DisableSdiBridge ==
  /\ Step("sdi_bridge_disable", "fsync_disable", << W(WREG_SDI_BRIDGE_ENABLE, 0) >>,
          drm_vid_ep_writel(regs, WREG_SDI_BRIDGE_ENABLE, 0))
  /\ UNCHANGED << bridge, stc, video_mode, am, vm, loop_iters >>

DisableFsync ==
  /\ Step("fsync_disable", "stc_disable", << Call("xlnx_stc_fsync_disable") >>, regs)
  /\ stc' = xlnx_stc_fsync_disable(stc)
  /\ UNCHANGED << bridge, video_mode, am, vm, loop_iters >>

DisableStc ==
  /\ Step("stc_disable", "idle", << Call("xlnx_stc_disable") >>, regs)
  /\ stc' = xlnx_stc_disable(stc)
  /\ UNCHANGED << bridge, video_mode, am, vm, loop_iters >>

DisableSteps ==
  \/ DisableBridge
  \/ DisableIrq
  \/ DisableCore
  \/ DisableAxi4s
  \/ DisableSdiBridge
  \/ DisableFsync
  \/ DisableStc

(***************************************************************************)
(* drm_vid_ep_unbind (detach), step by step.                               *)
(***************************************************************************)
drm_vid_ep_unbind ==
  /\ pc = "idle"
  /\ pc' = "u_irq_disable"
  /\ op' = "detach"
  /\ trace' = << >>
  /\ Record(ZeroMode)
  /\ UNCHANGED << has_bridge, props, nsets, regs, bridge, stc, video_mode, am,
                  vm, loop_iters >>

\* drm_vid_ep_set_display_disable: two writes
UnbindIrq ==
  /\ Step("u_irq_disable", "u_core_disable", << W(WREG_IRQ_ENABLE, 0) >>,
          drm_vid_ep_writel(regs, WREG_IRQ_ENABLE, 0))
  /\ UNCHANGED << bridge, stc, video_mode, am, vm, loop_iters >>

UnbindCore ==
  /\ Step("u_core_disable", "u_axi4s_disable", << W(WREG_CORE_ENABLE, 0) >>,
          drm_vid_ep_writel(regs, WREG_CORE_ENABLE, 0))
  /\ UNCHANGED << bridge, stc, video_mode, am, vm, loop_iters >>

UnbindAxi4s ==
  /\ Step("u_axi4s_disable", "u_sdi_bridge_disable", << W(WREG_AXI_S_VID_ENABLE, 0) >>,
          drm_vid_ep_writel(regs, WREG_AXI_S_VID_ENABLE, 0))
  /\ UNCHANGED << bridge, stc, video_mode, am, vm, loop_iters >>

UnbindSdiBridge ==
  /\ Step("u_sdi_bridge_disable", "u_fsync_disable", << W(WREG_SDI_BRIDGE_ENABLE, 0) >>,
          drm_vid_ep_writel(regs, WREG_SDI_BRIDGE_ENABLE, 0))
  /\ UNCHANGED << bridge, stc, video_mode, am, vm, loop_iters >>

UnbindFsync ==
  /\ Step("u_fsync_disable", "u_stc_disable", << Call("xlnx_stc_fsync_disable") >>, regs)
  /\ stc' = xlnx_stc_fsync_disable(stc)
  /\ UNCHANGED << bridge, video_mode, am, vm, loop_iters >>

UnbindStc ==
  /\ Step("u_stc_disable", "u_encoder_cleanup", << Call("xlnx_stc_disable") >>, regs)
  /\ stc' = xlnx_stc_disable(stc)
  /\ UNCHANGED << bridge, video_mode, am, vm, loop_iters >>

UnbindEncoderCleanup ==
  /\ Step("u_encoder_cleanup", "u_connector_cleanup",
          << Call("drm_encoder_cleanup") >>, regs)
  /\ UNCHANGED << bridge, stc, video_mode, am, vm, loop_iters >>

UnbindConnectorCleanup ==
  /\ Step("u_connector_cleanup", "u_bridge_disable",
          << Call("drm_connector_cleanup") >>, regs)
  /\ UNCHANGED << bridge, stc, video_mode, am, vm, loop_iters >>

\* faulty variant: the external bridge left enabled
UnbindBridge_skipped ==
  /\ Step("u_bridge_disable", "unbound", << >>, regs)
  /\ UNCHANGED << bridge, stc, video_mode, am, vm, loop_iters >>

\* xlnx_bridge_disable(drm_ep->bridge), called whether or not there is a bridge
UnbindBridge ==
  /\ Step("u_bridge_disable", "unbound", << Call("xlnx_bridge_disable") >>, regs)
  /\ bridge' = xlnx_bridge_disable(bridge, has_bridge)
  /\ UNCHANGED << stc, video_mode, am, vm, loop_iters >>

UnbindSteps ==
  \/ UnbindIrq
  \/ UnbindCore
  \/ UnbindAxi4s
  \/ UnbindSdiBridge
  \/ UnbindFsync
  \/ UnbindStc
  \/ UnbindEncoderCleanup
  \/ UnbindConnectorCleanup
  \/ UnbindBridge

(***************************************************************************)
(* drm_vid_ep_irq_handler, the threaded interrupt handler: one read of the *)
(* status register, then one write of the clear register.  It runs in its  *)
(* own context, concurrently with the encoder operations.                  *)
(***************************************************************************)
IrqStatuses == 0..MaxStatus

\* reg & bit, for a single-bit mask
BitSet(reg, bit) == (reg \div bit) % 2 = 1

\* faulty variant: the stream-locked condition never acknowledged
irq_clr_no_locked(reg) ==
  (IF BitSet(reg, AXI_S_VID_OVERFLOW_INTR) THEN AXI_S_VID_OVERFLOW_INTR ELSE 0)
  + (IF BitSet(reg, AXI_S_VID_UNDERFLOW_INTR) THEN AXI_S_VID_UNDERFLOW_INTR ELSE 0)

\* clr, accumulated from the three condition bits found in reg (the bits are
\* disjoint, so or-ing them in is adding them)
irq_clr(reg) ==
  (IF BitSet(reg, AXI_S_VID_LOCKED_INTR) THEN AXI_S_VID_LOCKED_INTR ELSE 0)
  + (IF BitSet(reg, AXI_S_VID_OVERFLOW_INTR) THEN AXI_S_VID_OVERFLOW_INTR ELSE 0)
  + (IF BitSet(reg, AXI_S_VID_UNDERFLOW_INTR) THEN AXI_S_VID_UNDERFLOW_INTR ELSE 0)

\* entry and reg = drm_vid_ep_readl(base, RREG_IRQ_STATUS)
drm_vid_ep_irq_handler ==
  /\ irq_pc = "idle"
  /\ \E status \in IrqStatuses :
       /\ irq_reg' = status
       /\ irq_trace' = << R(RREG_IRQ_STATUS, status) >>
  /\ irq_pc' = "clear"
  /\ UNCHANGED << has_bridge, props, nsets, regs, bridge, stc, video_mode, am,
                  vm, loop_iters, pc, op, trace, recording, call, prev,
                  prop_vars, last_op >>

\* faulty variant: the handler shuts the core down on a fault
IrqClear_core_disable ==
  /\ irq_pc = "clear"
  /\ regs' = drm_vid_ep_writel(regs, WREG_CORE_ENABLE, 0)
  /\ irq_trace' = Append(irq_trace, W(WREG_CORE_ENABLE, 0))
  /\ irq_pc' = "idle"
  /\ UNCHANGED << has_bridge, props, nsets, bridge, stc, video_mode, am, vm,
                  loop_iters, pc, op, trace, irq_reg, recording, call, prev,
                  prop_vars, last_op >>

\* drm_vid_ep_writel(base, WREG_IRQ_CLEAR, clr) and return
IrqClear ==
  /\ irq_pc = "clear"
  /\ regs' = drm_vid_ep_writel(regs, WREG_IRQ_CLEAR, irq_clr(irq_reg))
  /\ irq_trace' = Append(irq_trace, W(WREG_IRQ_CLEAR, irq_clr(irq_reg)))
  /\ irq_pc' = "idle"
  /\ UNCHANGED << has_bridge, props, nsets, bridge, stc, video_mode, am, vm,
                  loop_iters, pc, op, trace, irq_reg, recording, call, prev,
                  prop_vars, last_op >>

(***************************************************************************)
(* The pipeline specification: property sets and the three encoder         *)
(* operations, called one at a time by the display framework.              *)
(***************************************************************************)
ModeSet == \E dm \in Timings : drm_vid_ep_encoder_atomic_mode_set(dm)

Next ==
  \/ SetProperty
  \/ ModeSet
  \/ ModeSetSteps
  \/ drm_vid_ep_commit
  \/ CommitSteps
  \/ drm_vid_ep_disable
  \/ DisableSteps

Spec == Init /\ [][Next]_vars

(***************************************************************************)
(* The sequencing specification: the encoder operations and detach, called *)
(* one at a time in any order, with the output geometry set in between;    *)
(* each operation's inputs and its predecessor are observed.               *)
(***************************************************************************)
\* a property set of one of the given properties; their values are few, so
\* these sets need no bound and are not counted
SetPropertyAmong(names) ==
  /\ pc = "idle"
  /\ \E p \in names : \E val \in PropValues(p) :
       props' = drm_vid_ep_atomic_set_property(props, p, U64(0, val))
  /\ UNCHANGED << has_bridge, nsets, regs, bridge, stc, video_mode, am, vm,
                  loop_iters, pc, op, trace, irq_vars, recording, call, prev,
                  prop_vars, last_op >>

GeometryProperties == {"height_out", "width_out"}

SetGeometry == SetPropertyAmong(GeometryProperties)

InitSeq == InitDevice /\ recording = TRUE

NextSeq ==
  \/ SetGeometry
  \/ ModeSet
  \/ ModeSetSteps
  \/ drm_vid_ep_commit
  \/ CommitSteps
  \/ drm_vid_ep_disable
  \/ DisableSteps
  \/ drm_vid_ep_unbind
  \/ UnbindSteps

SpecSeq == InitSeq /\ [][NextSeq]_vars

(***************************************************************************)
(* The interrupt specification: the handler interleaved, one register      *)
(* access at a time, with the encoder operations and property sets.        *)
(***************************************************************************)
SubsamplingProperties == {"sdi_420_in", "sdi_420_out"}

SetSubsampling == SetPropertyAmong(SubsamplingProperties)

NextIrq ==
  \/ SetSubsampling
  \/ ModeSet
  \/ ModeSetSteps
  \/ drm_vid_ep_commit
  \/ CommitSteps
  \/ drm_vid_ep_disable
  \/ DisableSteps
  \/ drm_vid_ep_irq_handler
  \/ IrqClear

SpecIrq == Init /\ [][NextIrq]_vars

(***************************************************************************)
(* The derivation specification: the first mode-set after probe, over the  *)
(* enumerated display modes.                                               *)
(***************************************************************************)
FirstModeSet ==
  /\ op = "none"
  /\ \E dm \in DeriveTimings : drm_vid_ep_encoder_atomic_mode_set(dm)

NextDerive ==
  \/ FirstModeSet
  \/ ModeSetSteps

SpecDerive == Init /\ [][NextDerive]_vars

(***************************************************************************)
(* The lifecycle specification: probe's interrupt set-up, from a device    *)
(* whose interrupt-enable register holds either value, then the encoder    *)
(* operations and detach in any order.                                     *)
(***************************************************************************)
\* faulty variant: probe leaves the interrupt-enable register as it found it
ProbeIrqDisable_skipped ==
  /\ Step("p_irq_disable", "p_request_irq", << >>, regs)
  /\ UNCHANGED << bridge, stc, video_mode, am, vm, loop_iters >>

\* disable interrupt: drm_vid_ep_writel(drm_ep->base, WREG_IRQ_ENABLE, 0x0)
ProbeIrqDisable ==
  /\ Step("p_irq_disable", "p_request_irq", << W(WREG_IRQ_ENABLE, 0) >>,
          drm_vid_ep_writel(regs, WREG_IRQ_ENABLE, 0))
  /\ UNCHANGED << bridge, stc, video_mode, am, vm, loop_iters >>

\* devm_request_threaded_irq: the handler is registered; the rest of probe
\* touches neither the registers nor the handler
ProbeRequestIrq ==
  /\ pc = "p_request_irq"
  /\ pc' = "idle"
  /\ irq_pc' = "idle"
  /\ UNCHANGED << has_bridge, props, nsets, regs, bridge, stc, video_mode, am,
                  vm, loop_iters, op, trace, irq_reg, irq_trace, recording,
                  call, prev, prop_vars, last_op >>

ProbeSteps ==
  \/ ProbeIrqDisable
  \/ ProbeRequestIrq

\* probe entered: the device structure zeroed, no handler registered yet,
\* the interrupt-enable register as the hardware was left
InitLife ==
  /\ has_bridge \in BOOLEAN
  /\ props = ZeroProps
  /\ nsets = 0
  /\ \E left \in {0, 1} :
       regs = drm_vid_ep_writel([r \in WriteRegs |-> 0], WREG_IRQ_ENABLE, left)
  /\ bridge = [input |-> <<0, 0, 0>>, output |-> <<0, 0, 0>>, enabled |-> 0]
  /\ stc = [enabled |-> 0, fsync |-> 0, sig |-> ZeroVm]
  /\ video_mode = [hdisplay |-> 0, vdisplay |-> 0, vrefresh |-> 0, flags |-> {}]
  /\ am = ZeroMode
  /\ vm = ZeroVm
  /\ loop_iters = 0
  /\ pc = "p_irq_disable"
  /\ op = "probe"
  /\ trace = << >>
  /\ irq_pc = "unregistered"
  /\ irq_reg = 0
  /\ irq_trace = << >>
  /\ recording = TRUE
  /\ call = NoCall
  /\ prev = NoPrev
  /\ prop_call = NoPropCall
  /\ prop_prev = NoPropCall
  /\ last_op = "probe"

NextLife ==
  \/ ProbeSteps
  \/ SetGeometry
  \/ ModeSet
  \/ ModeSetSteps
  \/ drm_vid_ep_commit
  \/ CommitSteps
  \/ drm_vid_ep_disable
  \/ DisableSteps
  \/ drm_vid_ep_unbind
  \/ UnbindSteps

SpecLife == InitLife /\ [][NextLife]_vars

(***************************************************************************)
(* The property specification: the connector's set and get callbacks,      *)
(* called with the device's nine property handles and with a handle of     *)
(* another object, and with values that use the upper 32 bits.             *)
(***************************************************************************)
\* a property that is none of the device's
OtherProperty == "other"

Handles == Properties \cup {OtherProperty}

\* 0, 1, a width, 2^32 and 2^32 + 1
Values64 == { U64(0, 0), U64(0, 1), U64(0, 3840), U64(1, 0), U64(1, 1) }

\* drm_vid_ep_atomic_set_property(connector, state, property, val)
SetPropertyCall ==
  /\ pc = "idle"
  /\ nsets < MaxSets
  /\ \E p \in Handles : \E val \in Values64 :
       /\ props' = drm_vid_ep_atomic_set_property(props, p, val)
       /\ prop_call' = [fn |-> "set", property |-> p, val |-> val,
                        ret |-> property_ret(p), out |-> U64(0, 0),
                        before |-> props]
  /\ prop_prev' = prop_call
  /\ nsets' = nsets + 1
  /\ UNCHANGED << has_bridge, regs, bridge, stc, video_mode, am, vm,
                  loop_iters, pc, op, trace, irq_vars, recording, call, prev,
                  last_op >>

\* drm_vid_ep_atomic_get_property(connector, state, property, &val), with
\* whatever the caller's val held before
GetPropertyCall ==
  /\ pc = "idle"
  /\ nsets < MaxSets
  /\ \E p \in Handles : \E old \in Values64 :
       prop_call' = [fn |-> "get", property |-> p, val |-> old,
                     ret |-> property_ret(p),
                     out |-> drm_vid_ep_atomic_get_property(props, p, old),
                     before |-> props]
  /\ prop_prev' = prop_call
  /\ nsets' = nsets + 1
  /\ UNCHANGED << has_bridge, props, regs, bridge, stc, video_mode, am, vm,
                  loop_iters, pc, op, trace, irq_vars, recording, call, prev,
                  last_op >>

NextProp ==
  \/ SetPropertyCall
  \/ GetPropertyCall

SpecProp == Init /\ [][NextProp]_vars

(***************************************************************************)
(* Vocabulary of the properties.                                           *)
(***************************************************************************)
IsPrefix(s, t) == Len(s) <= Len(t) /\ \A i \in 1..Len(s) : s[i] = t[i]

\* the operation has returned
Returned(o) == op = o /\ pc = "idle"

\* mode-set has computed the local vm
Derived == op = "configure" /\ pc \in {"video_mode", "stc_sig", "idle"}

ValidH(m) ==
  m.hdisplay <= m.hsync_start /\ m.hsync_start <= m.hsync_end /\ m.hsync_end <= m.htotal

\* total horizontal blanking of the display mode, in native pixels
SourceBlank(m) ==
  (m.hsync_start - m.hdisplay) + (m.hsync_end - m.hsync_start) + (m.htotal - m.hsync_end)

\* total horizontal blanking of a derived record, scaled to native pixels
RecordBlank(v) == (Val(v.hfront_porch) + Val(v.hback_porch) + Val(v.hsync_len)) * 2

(***************************************************************************)
(* C1                                                                      *)
(***************************************************************************)
CommitOrder ==
  << W(WREG_CORE_ENABLE, 1), W(WREG_SDI_BRIDGE_ENABLE, 1), Call("xlnx_stc_enable"),
     Call("xlnx_stc_fsync_enable"), W(WREG_AXI_S_VID_ENABLE, 1) >>

\* C1: what commit has issued so far is always an initial part of
\* [core-enable, bridge-enable, timing-generator-enable, frame-sync-enable,
\* serializer-enable], and when commit returns it has issued exactly that
\* sequence, nothing more and nothing in between.
C1_CommitOrder ==
  op = "commit" =>
    /\ IsPrefix(trace, CommitOrder)
    /\ (pc = "idle" => trace = CommitOrder)

C1_Witness == Returned("commit") /\ Len(trace) = 5 /\ regs[WREG_AXI_S_VID_ENABLE] = 1

(***************************************************************************)
(* C2                                                                      *)
(***************************************************************************)
\* the disabling operations of the four blocks commit enables after the core
IsBlockDisable(e) ==
  e \in { W(WREG_AXI_S_VID_ENABLE, 0), W(WREG_SDI_BRIDGE_ENABLE, 0),
          Call("xlnx_stc_fsync_disable"), Call("xlnx_stc_disable") }

\* C2 as stated: when disable returns, it has disabled the four blocks in the
\* reverse of commit's order: serializer, frame-sync, timing generator, bridge.
C2_ReverseOfCommit ==
  Returned("disable") =>
    SelectSeq(trace, IsBlockDisable) =
      << W(WREG_AXI_S_VID_ENABLE, 0), Call("xlnx_stc_fsync_disable"),
         Call("xlnx_stc_disable"), W(WREG_SDI_BRIDGE_ENABLE, 0) >>

DisableBlockOrder ==
  << W(WREG_AXI_S_VID_ENABLE, 0), W(WREG_SDI_BRIDGE_ENABLE, 0),
     Call("xlnx_stc_fsync_disable"), Call("xlnx_stc_disable") >>

\* C2 (amended): disable disables the serializer stream-input first, then the
\* bridge, then frame-sync, and the timing-generator output last; what it has
\* disabled so far is always an initial part of that order.
C2_DisableOrder ==
  op = "disable" =>
    /\ IsPrefix(SelectSeq(trace, IsBlockDisable), DisableBlockOrder)
    /\ (pc = "idle" => SelectSeq(trace, IsBlockDisable) = DisableBlockOrder)

C2_Witness ==
  /\ Returned("disable")
  /\ SelectSeq(trace, IsBlockDisable) = DisableBlockOrder
  /\ stc.enabled = 0

(***************************************************************************)
(* C3                                                                      *)
(***************************************************************************)
\* what a trace entry is, without the value written
Kind(e) == << e.op, e.reg >>

\* the entries of t are, in order, of the first Len(t) kinds of order
KindsPrefix(t, order) ==
  Len(t) <= Len(order) /\ \A i \in 1..Len(t) : Kind(t[i]) = order[i]

ConfigureOrder(substituted) ==
  << Kind(Call("xlnx_bridge_set_input")), Kind(Call("xlnx_bridge_set_output")),
     Kind(Call("xlnx_bridge_enable")) >>
  \o (IF substituted THEN << Kind(Call("memcpy")) >> ELSE << >>)
  \o << Kind(W(WREG_IRQ_MASK, 0)), Kind(W(WREG_IRQ_ENABLE, 0)),
        Kind(Call("xlnx_stc_reset")), Kind(W(WREG_SDI_MODE, 0)),
        Kind(W(WREG_SDI_IS_FRAC, 0)), Kind(Call("xlnx_stc_sig")) >>

\* C3: from whatever state configure is called, what it has done so far is an
\* initial part of: bridge setInput, setOutput, enable; the canonical-timing
\* substitution (when the table has a match); interrupt-mask write,
\* interrupt-enable write, timing-generator reset; mode-select write,
\* fractional-rate write; push of the timing record.  When it returns it has
\* done exactly that, and the record pushed is the one derived after the
\* substitution.
C3_ConfigureOrder ==
  op = "configure" =>
    /\ \E substituted \in BOOLEAN :
         /\ KindsPrefix(trace, ConfigureOrder(substituted))
         /\ (pc = "idle" =>
               /\ Len(trace) = Len(ConfigureOrder(substituted))
               /\ stc.sig = vm)
    /\ (pc \in {"irq_mask", "irq_enable", "stc_reset", "sdi_mode", "is_frac",
                "derive", "video_mode", "stc_sig"} =>
          /\ Len(trace) >= 3
          /\ sdi_mode_found(am, props, has_bridge)
               <=> (Len(trace) > 3 /\ trace[4] = Call("memcpy")))

C3_Witness ==
  /\ Returned("configure")
  /\ Len(trace) = 10
  /\ trace[4] = Call("memcpy")
  /\ regs[WREG_CORE_ENABLE] = 1

(***************************************************************************)
(* C4                                                                      *)
(***************************************************************************)
\* C4: for a valid horizontal timing, the record pushed to the timing
\* generator has at least the source's horizontal blanking:
\* (hfront_porch + hback_porch + hsync_len) * 2 >= sditxBlank.
C4_NoUndershoot ==
  (Returned("configure") /\ ValidH(am)) => RecordBlank(stc.sig) >= SourceBlank(am)

\* a timing whose three porches are all odd, so that truncation lost 3 pixels
C4_Witness ==
  /\ Returned("configure")
  /\ ValidH(am)
  /\ SourceBlank(am) = 3
  /\ RecordBlank(vm_init(am, U32(0))) = 0
  /\ RecordBlank(stc.sig) >= 3

(***************************************************************************)
(* C5                                                                      *)
(***************************************************************************)
\* ceil(n / 2)
HalfUp(n) == (n + 1) \div 2

\* C5 as stated: for a valid horizontal timing the compensation loop's body
\* executes at most ceil(sditxBlank / 2) times.
C5_BoundAsStated ==
  (Derived /\ ValidH(am)) => loop_iters <= HalfUp(SourceBlank(am))

\* C5 (amended): for a valid horizontal timing the loop terminates, and its
\* body executes at least once and at most ceil(sditxBlank / 2) + 1 times:
\* both where mode-set is about to run the loop and after it has run it.
C5_LoopBound ==
  /\ (op = "configure" /\ pc = "derive" /\ ValidH(am)) =>
       \A garbage \in StackValues :
         derive(am, garbage).iters \in 1..(HalfUp(SourceBlank(am)) + 1)
  /\ (Derived /\ ValidH(am)) =>
       (1 <= loop_iters /\ loop_iters <= HalfUp(SourceBlank(am)) + 1)

\* the bound is reached: three odd porches of one pixel, three executions
C5_Witness ==
  /\ Derived
  /\ ValidH(am)
  /\ SourceBlank(am) = 3
  /\ loop_iters = 3

(***************************************************************************)
(* C6                                                                      *)
(***************************************************************************)
\* C6 as stated: for a valid timing the pushed record's horizontal blanking,
\* scaled to native pixels, equals htotal - hdisplay.
C6_BlankEqual ==
  (Returned("configure") /\ ValidH(am)) => RecordBlank(stc.sig) = am.htotal - am.hdisplay

\* C6 (amended): for a valid timing whose blanking htotal - hdisplay is even,
\* the pushed record's horizontal blanking, scaled to native pixels, equals
\* it; an odd blanking cannot be matched by a multiple of two and is exceeded.
C6_BlankEqualWhenEven ==
  (Returned("configure") /\ ValidH(am)) =>
    IF (am.htotal - am.hdisplay) % 2 = 0
      THEN RecordBlank(stc.sig) = am.htotal - am.hdisplay
      ELSE RecordBlank(stc.sig) > am.htotal - am.hdisplay

\* an even blanking that truncation had shortened and the loop restored
C6_Witness ==
  /\ Returned("configure")
  /\ ValidH(am)
  /\ am.htotal - am.hdisplay = 4
  /\ RecordBlank(vm_init(am, U32(0))) = 2
  /\ RecordBlank(stc.sig) = 4

(***************************************************************************)
(* C7                                                                      *)
(***************************************************************************)
\* C7 as stated: the mode-select register written by configure is the
\* requested mode's own code (HD 0, SD 1, 3G-A 2, 3G-B 3, 6G 4, 12G 5, any
\* other value 0), and the fractional-rate register is 1 exactly when the
\* fractional flag is set.
C7_ModeCodes ==
  (op = "configure" /\ pc \in {"derive", "video_mode", "stc_sig"}) =>
    /\ regs[WREG_SDI_MODE] =
         (IF props.sdi_mod_prop_val \in 0..5 THEN props.sdi_mod_prop_val ELSE 0)
    /\ regs[WREG_SDI_IS_FRAC] = (IF props.is_frac_prop_val # 0 THEN 1 ELSE 0)

(***************************************************************************)
(* C8                                                                      *)
(***************************************************************************)
\* C8: the mode-select register never holds 3, and every write to it, by any
\* operation, carries a value in {0, 1, 2, 4, 5}.
C8_Never3GB ==
  /\ regs[WREG_SDI_MODE] \in {0, 1, 2, 4, 5}
  /\ \A i \in 1..Len(trace) :
       (trace[i].op = "writel" /\ trace[i].reg = WREG_SDI_MODE)
         => trace[i].val \in {0, 1, 2, 4, 5}

\* 3G-B requested and configured
C8_Witness ==
  /\ op = "configure"
  /\ pc = "is_frac"
  /\ props.sdi_mod_prop_val = SDI_MODE_3GB
  /\ trace[Len(trace)] = W(WREG_SDI_MODE, 0)

(***************************************************************************)
(* C9                                                                      *)
(***************************************************************************)
\* C9: the pushed vertical back-porch is vtotal - vsync_end for a
\* non-interlaced mode, and for an interlaced mode 562 - vsync_end when
\* vtotal = 1125, 312 - vsync_end when vtotal = 625 and 262 - vsync_end when
\* vtotal = 525 (each as the u32 field holds it).
C9_VBackPorch ==
  Returned("configure") =>
    /\ "INTERLACE" \notin am.flags =>
         stc.sig.vback_porch = U32(am.vtotal - am.vsync_end)
    /\ ("INTERLACE" \in am.flags /\ am.vtotal = 1125) =>
         stc.sig.vback_porch = U32(562 - am.vsync_end)
    /\ ("INTERLACE" \in am.flags /\ am.vtotal = 625) =>
         stc.sig.vback_porch = U32(312 - am.vsync_end)
    /\ ("INTERLACE" \in am.flags /\ am.vtotal = 525) =>
         stc.sig.vback_porch = U32(262 - am.vsync_end)

C9_Witness ==
  /\ Returned("configure")
  /\ "INTERLACE" \in am.flags
  /\ am.vtotal = 625
  /\ stc.sig.vback_porch = U32(19)

(***************************************************************************)
(* C10                                                                     *)
(***************************************************************************)
InterlacedTable == {1125, 625, 525}

\* C10 as stated: for an interlaced mode whose vtotal is not in the table,
\* the back-porch that mode-set pushes is the prior pushed value or zero.
C10_PriorOrZero ==
  [][ (pc = "stc_sig" /\ pc' = "idle" /\ "INTERLACE" \in am.flags
       /\ am.vtotal \notin InterlacedTable)
      => stc'.sig.vback_porch \in {stc.sig.vback_porch, U32(0)} ]_vars

(***************************************************************************)
(* C11                                                                     *)
(***************************************************************************)
\* the operation that has returned was called right after a configure, with
\* that configure's display timing and output parameters
ConfiguredTwice ==
  /\ Returned("configure")
  /\ prev.op = "configure"
  /\ call = prev.call

\* the bridge calls and register writes of a sequence of events
BridgeCallsAndWrites(e) ==
  e.op \in { "writel", "xlnx_bridge_set_input", "xlnx_bridge_set_output",
             "xlnx_bridge_enable", "xlnx_bridge_disable" }

ConditionBits(status) == status % 8

\* C12: a run of the fault handler reads the interrupt-status register once,
\* and when it has returned it has written the interrupt-clear register
\* exactly once, with the status masked to the three condition bits, and has
\* accessed no other register.
C12_OneClear ==
  /\ irq_pc = "clear" => irq_trace = << R(RREG_IRQ_STATUS, irq_reg) >>
  /\ (irq_pc = "idle" /\ irq_trace # << >>) =>
       irq_trace = << R(RREG_IRQ_STATUS, irq_reg),
                     W(WREG_IRQ_CLEAR, ConditionBits(irq_reg)) >>

\* overflow and underflow reported together: one clear write of 0b110
C12_Witness ==
  /\ irq_pc = "idle"
  /\ irq_reg = 6
  /\ irq_trace = << R(RREG_IRQ_STATUS, 6), W(WREG_IRQ_CLEAR, 6) >>
  /\ regs[WREG_IRQ_CLEAR] = 6

(***************************************************************************)
(* C13                                                                     *)
(***************************************************************************)
\* everything disable does, in order
DisableSequence ==
  (IF has_bridge THEN << Call("xlnx_bridge_disable") >> ELSE << >>)
  \o << W(WREG_IRQ_ENABLE, 0), W(WREG_CORE_ENABLE, 0), W(WREG_AXI_S_VID_ENABLE, 0),
        W(WREG_SDI_BRIDGE_ENABLE, 0), Call("xlnx_stc_fsync_disable"),
        Call("xlnx_stc_disable") >>

\* the registers a step of the handler leaves alone
SequencerRegs == WriteRegs \ {WREG_IRQ_CLEAR}

IsWrite(e) == e.op = "writel"

\* what the transitions do when no handler runs: the writes and calls of the
\* transition so far, and the enable registers it leaves
UndisturbedTransition ==
  /\ op = "commit" =>
       /\ IsPrefix(trace, CommitOrder)
       /\ (pc = "idle" =>
             /\ trace = CommitOrder
             /\ regs[WREG_CORE_ENABLE] = 1
             /\ regs[WREG_SDI_BRIDGE_ENABLE] = 1
             /\ regs[WREG_AXI_S_VID_ENABLE] = 1)
  /\ op = "disable" =>
       /\ IsPrefix(trace, DisableSequence)
       /\ (pc = "idle" =>
             /\ trace = DisableSequence
             /\ regs[WREG_CORE_ENABLE] = 0
             /\ regs[WREG_SDI_BRIDGE_ENABLE] = 0
             /\ regs[WREG_AXI_S_VID_ENABLE] = 0
             /\ regs[WREG_IRQ_ENABLE] = 0)
  /\ op = "configure" =>
       /\ \E substituted \in BOOLEAN : KindsPrefix(trace, ConfigureOrder(substituted))
       /\ SelectSeq(trace, IsWrite) \in
            { << >>, << W(WREG_IRQ_MASK, IRQ_EN_MASK) >>,
              << W(WREG_IRQ_MASK, IRQ_EN_MASK), W(WREG_IRQ_ENABLE, 1) >>,
              << W(WREG_IRQ_MASK, IRQ_EN_MASK), W(WREG_IRQ_ENABLE, 1),
                 W(WREG_SDI_MODE, regs[WREG_SDI_MODE]) >>,
              << W(WREG_IRQ_MASK, IRQ_EN_MASK), W(WREG_IRQ_ENABLE, 1),
                 W(WREG_SDI_MODE, regs[WREG_SDI_MODE]),
                 W(WREG_SDI_IS_FRAC, regs[WREG_SDI_IS_FRAC]) >> }
       /\ (pc = "idle" =>
             /\ Len(SelectSeq(trace, IsWrite)) = 4
             /\ regs[WREG_IRQ_ENABLE] = 1
             /\ regs[WREG_IRQ_MASK] = IRQ_EN_MASK)

\* a step of the handler changes nothing of the transitions: no register but
\* interrupt-clear, no position, no trace, no stage
HandlerStepDisjoint ==
  irq_pc' # irq_pc =>
    /\ \A r \in SequencerRegs : regs'[r] = regs[r]
    /\ UNCHANGED << has_bridge, props, bridge, stc, video_mode, am, vm,
                    loop_iters, pc, op, trace >>

\* a step of a transition leaves the interrupt-clear register and the handler
\* alone
TransitionStepDisjoint ==
  irq_pc' = irq_pc =>
    /\ regs'[WREG_IRQ_CLEAR] = regs[WREG_IRQ_CLEAR]
    /\ UNCHANGED irq_vars
    /\ \A i \in 1..Len(trace') :
         IsWrite(trace'[i]) => trace'[i].reg \in SequencerRegs

\* C13: however the handler's register accesses interleave with those of a
\* configure, commit or disable, the transition issues the writes it issues
\* alone, in the same order and with the same values, and leaves the same
\* enable registers; the handler's steps write only the interrupt-clear
\* register, which no transition writes.
C13_HandlerDisjoint ==
  /\ []UndisturbedTransition
  /\ [][HandlerStepDisjoint /\ TransitionStepDisjoint]_vars

\* the handler between its read and its write while commit is between two
\* of its writes, an earlier run having cleared all three conditions
C13_Witness ==
  /\ irq_pc = "clear"
  /\ op = "commit"
  /\ pc = "stc_enable"
  /\ regs[WREG_IRQ_CLEAR] = 7
  /\ regs[WREG_SDI_BRIDGE_ENABLE] = 1

(***************************************************************************)
(* C14                                                                     *)
(***************************************************************************)
CommitWrites ==
  << W(WREG_CORE_ENABLE, 1), W(WREG_SDI_BRIDGE_ENABLE, 1), W(WREG_AXI_S_VID_ENABLE, 1) >>

DisableWrites ==
  << W(WREG_IRQ_ENABLE, 0), W(WREG_CORE_ENABLE, 0), W(WREG_AXI_S_VID_ENABLE, 0),
     W(WREG_SDI_BRIDGE_ENABLE, 0) >>

\* C14: while the device is bound, commit and disable can be called in every
\* stage and after every history; a commit that has returned has issued the
\* same register writes whatever came before it, so has a disable, and a
\* disable right after a disable has repeated its writes and left every
\* register as the first one left it.
C14_MisuseTolerated ==
  /\ pc = "idle" => (ENABLED drm_vid_ep_commit /\ ENABLED drm_vid_ep_disable)
  /\ Returned("commit") => SelectSeq(trace, IsWrite) = CommitWrites
  /\ Returned("disable") => SelectSeq(trace, IsWrite) = DisableWrites
  /\ (Returned("disable") /\ prev.op = "disable") =>
       /\ SelectSeq(trace, IsWrite) = SelectSeq(prev.trace, IsWrite)
       /\ regs = prev.regs

\* a commit called right after a disable, with no configure in between
C14_Witness ==
  /\ Returned("commit")
  /\ prev.op = "disable"
  /\ prev.regs[WREG_IRQ_ENABLE] = 0
  /\ SelectSeq(trace, IsWrite) = CommitWrites
  /\ regs[WREG_AXI_S_VID_ENABLE] = 1

(***************************************************************************)
(* C15                                                                     *)
(***************************************************************************)
\* unbind has returned
Detached == op = "detach" /\ pc = "unbound"

IsWriteOrBridgeDisable(e) == IsWrite(e) \/ e.op = "xlnx_bridge_disable"

IsWriteOrStcCall(e) ==
  IsWrite(e) \/ e.op \in {"xlnx_stc_fsync_disable", "xlnx_stc_disable"}

\* C15 as stated: the register writes and bridge disable calls of a detach
\* are those of a disable on the same device, in the same order.
C15_SameAsDisable ==
  Detached =>
    SelectSeq(trace, IsWriteOrBridgeDisable)
      = SelectSeq(DisableSequence, IsWriteOrBridgeDisable)

\* C15 (amended): a detach makes the register writes and timing-generator
\* calls of a disable, in the same order, but it disables the external bridge
\* last, after them and after the encoder and connector cleanup, where
\* disable disables it first; it leaves every enable register 0 and the
\* bridge and the timing generator disabled.
C15_DetachOrder ==
  Detached =>
    /\ SelectSeq(trace, IsWriteOrStcCall) = SelectSeq(DisableSequence, IsWriteOrStcCall)
    /\ prev.op = "disable" =>
         SelectSeq(trace, IsWriteOrStcCall) = SelectSeq(prev.trace, IsWriteOrStcCall)
    /\ SubSeq(trace, 1, 6) = SelectSeq(DisableSequence, IsWriteOrStcCall)
    /\ SubSeq(trace, 7, Len(trace))
         = << Call("drm_encoder_cleanup"), Call("drm_connector_cleanup"),
              Call("xlnx_bridge_disable") >>
    /\ regs[WREG_CORE_ENABLE] = 0 /\ regs[WREG_AXI_S_VID_ENABLE] = 0
    /\ regs[WREG_SDI_BRIDGE_ENABLE] = 0 /\ regs[WREG_IRQ_ENABLE] = 0
    /\ bridge.enabled = 0 /\ stc.enabled = 0 /\ stc.fsync = 0

\* a detach of an enabled pipeline with an external bridge
C15_Witness ==
  /\ Detached
  /\ has_bridge
  /\ prev.op = "commit"
  /\ prev.regs[WREG_AXI_S_VID_ENABLE] = 1
  /\ trace[Len(trace)] = Call("xlnx_bridge_disable")
  /\ regs[WREG_AXI_S_VID_ENABLE] = 0

(***************************************************************************)
(* C16                                                                     *)
(***************************************************************************)
\* configure is past its substitution step
PastSubstitution ==
  op = "configure" /\ pc \notin {"set_input", "set_output", "bridge_enable", "memcpy"}

\* the table entries with the output width and height and the refresh rate
\* that configure was called with
MatchingEntries ==
  { i \in 1..Len(xlnx_sdi_modes) :
      /\ xlnx_sdi_modes[i].hdisplay = call.props.width_out_prop_val
      /\ xlnx_sdi_modes[i].vdisplay = call.props.height_out_prop_val
      /\ xlnx_sdi_modes[i].vrefresh = call.dm.vrefresh }

\* the display timing has entry e's clock, blanking and sync fields and flags,
\* and the active geometry and refresh rate it was called with
Substituted(e) ==
  /\ am.clock = e.clock
  /\ am.hsync_start = e.hsync_start /\ am.hsync_end = e.hsync_end
  /\ am.htotal = e.htotal
  /\ am.vsync_start = e.vsync_start /\ am.vsync_end = e.vsync_end
  /\ am.vtotal = e.vtotal
  /\ am.flags = e.flags
  /\ am.hdisplay = call.dm.hdisplay /\ am.vdisplay = call.dm.vdisplay
  /\ am.vrefresh = call.dm.vrefresh

C17_DerivedRecord ==
  /\ Returned("configure") =>
       /\ stc.sig.hactive = U32(am.hdisplay \div 2)
       /\ stc.sig.hsync_len = U32((am.hsync_end - am.hsync_start) \div 2)
       /\ stc.sig.hback_porch = U32((am.htotal - am.hsync_end) \div 2)
       /\ Val(stc.sig.hfront_porch) >= (am.hsync_start - am.hdisplay) \div 2
       /\ stc.sig.vactive = U32(am.vdisplay)
       /\ stc.sig.vfront_porch = U32(am.vsync_start - am.vdisplay)
       /\ stc.sig.vsync_len = U32(am.vsync_end - am.vsync_start)
       /\ stc.sig.pixelclock = am.clock * 1000
       /\ "INTERLACED" \in stc.sig.flags <=> "INTERLACE" \in am.flags
       /\ "HSYNC_LOW" \in stc.sig.flags <=> "PHSYNC" \in am.flags
       /\ "VSYNC_LOW" \in stc.sig.flags <=> "PVSYNC" \in am.flags
       /\ stc.sig.flags \subseteq {"INTERLACED", "HSYNC_LOW", "VSYNC_LOW"}
  /\ (Returned("configure") /\ am.clock = 594000 /\ "INTERLACE" \notin am.flags
        /\ << am.hdisplay, am.hsync_start, am.hsync_end, am.htotal >> = H2160
        /\ << am.vdisplay, am.vsync_start, am.vsync_end, am.vtotal >> = V2160) =>
       /\ Val(stc.sig.hactive) = 1920
       /\ stc.sig.pixelclock = 594000000
       /\ Val(stc.sig.vback_porch) = 46
  /\ sdi_mode_code(SDI_MODE_12G) = 5

\* the 3840x2160 scenario
C17_Witness ==
  /\ Returned("configure")
  /\ am.hdisplay = 3840 /\ am.htotal = 4016 /\ am.vtotal = 2222
  /\ am.flags = {"PHSYNC", "PVSYNC"}
  /\ Val(stc.sig.hactive) = 1920
  /\ Val(stc.sig.hfront_porch) = 24
  /\ stc.sig.pixelclock = 594000000
  /\ Val(stc.sig.vback_porch) = 46

(***************************************************************************)
(* C18                                                                     *)
(***************************************************************************)
\* C18 as stated: in every state from probe on, the stored output width and
\* height are in 2..4096, the stored data-stream count is 2, 4 or 8, and the
\* stored mode is one of the six modes.
C18_ParametersInRange ==
  /\ props.width_out_prop_val \in 2..4096
  /\ props.height_out_prop_val \in 2..4096
  /\ props.sdi_data_strm_prop_val \in {2, 4, 8}
  /\ props.sdi_mod_prop_val \in SDI_MODE_HD..SDI_MODE_12G

(***************************************************************************)
(* C19                                                                     *)
(***************************************************************************)
\* active geometry, refresh rate and flags of a display timing
Snapshot(m) ==
  [hdisplay |-> m.hdisplay, vdisplay |-> m.vdisplay, vrefresh |-> m.vrefresh,
   flags |-> m.flags]

\* outside the part of a configure that precedes its snapshot step, the
\* published snapshot is that of the display timing last configured
SnapshotCurrent ==
  (op # "configure" \/ pc \in {"stc_sig", "idle"}) => video_mode = Snapshot(am)

\* the only step that changes the snapshot is configure's snapshot step
SnapshotChange ==
  video_mode' # video_mode => (op = "configure" /\ pc = "video_mode" /\ pc' = "stc_sig")

\* C19: the published snapshot changes only in configure: the steps of
\* commit and disable, property sets and the handler's steps leave it as it
\* is; and from a configure's snapshot step on it holds the active geometry,
\* refresh rate and flags of the display timing that configure used.
C19_SnapshotOnlyAtConfigure ==
  /\ []SnapshotCurrent
  /\ [][SnapshotChange]_vars

\* a snapshot taken by a configure, still there after a commit, a disable, a
\* property set and in the middle of a handler run
C19_Witness ==
  /\ Returned("disable")
  /\ regs[WREG_IRQ_MASK] = IRQ_EN_MASK
  /\ props.sdi_420_in_val = 1
  /\ irq_pc = "clear"
  /\ video_mode = Snapshot(am)
  /\ video_mode.hdisplay = 3840
  /\ video_mode.flags = {"PHSYNC"}

(***************************************************************************)
(* C20                                                                     *)
(***************************************************************************)
\* no configure has been called: only commits, disables and a detach
OnlyCommitsAndDisables == am = ZeroMode /\ op \in {"none", "commit", "disable"}

\* C20 as stated: in every state of a sequence of commits and disables, one
\* register write or collaborator call at a time, the serializer
\* stream-input enable is 1 only if the core-enable bit is 1, the bridge
\* enable is 1 and the timing-generator output is enabled.
C20_DownstreamNeedsUpstream ==
  (OnlyCommitsAndDisables /\ regs[WREG_AXI_S_VID_ENABLE] = 1) =>
    /\ regs[WREG_CORE_ENABLE] = 1
    /\ regs[WREG_SDI_BRIDGE_ENABLE] = 1
    /\ stc.enabled = 1

(***************************************************************************)
(* C21                                                                     *)
(***************************************************************************)
\* the stored parameter of each known property
Field(p) ==
  CASE p = "sdi_mode" -> "sdi_mod_prop_val"
    [] p = "sdi_data_strm" -> "sdi_data_strm_prop_val"
    [] p = "sdi_420_in" -> "sdi_420_in_val"
    [] p = "sdi_420_out" -> "sdi_420_out_val"
    [] p = "is_frac_prop" -> "is_frac_prop_val"
    [] p = "height_out" -> "height_out_prop_val"
    [] p = "width_out" -> "width_out_prop_val"
    [] p = "in_fmt" -> "in_fmt_prop_val"
    [] p = "out_fmt" -> "out_fmt_prop_val"

FlagProperties == {"sdi_420_in", "sdi_420_out", "is_frac_prop"}

\* what a set of p with val is to store: 1 or 0 for a flag, as val is
\* nonzero or zero, and otherwise val modulo 2^32
Normalised(p, val) ==
  IF p \in FlagProperties
    THEN (IF val = U64(0, 0) THEN 0 ELSE 1)
    ELSE val.lo

\* C21: a property set or get with a handle that is none of the nine
\* properties returns -EINVAL and leaves every stored parameter as it was; a
\* set with a known handle returns 0 and changes that one parameter only,
\* to the 32-bit truncation of the value, or to its boolean normalisation
\* for a flag; a get returns 0 and the stored value, so a get that follows a
\* set of the same property returns the truncated or normalised value.
C21_PropertyCalls ==
  LET c == prop_call
      q == prop_prev
  IN  /\ (c.fn # "none" /\ c.property \notin Properties) =>
            c.ret = -EINVAL /\ props = c.before
      /\ (c.fn = "set" /\ c.property \in Properties) =>
            /\ c.ret = 0
            /\ props[Field(c.property)] = Normalised(c.property, c.val)
            /\ \A f \in DOMAIN props \ {Field(c.property)} :
                 props[f] = c.before[f]
      /\ (c.fn = "get" /\ c.property \in Properties) =>
            /\ c.ret = 0
            /\ props = c.before
            /\ c.out = U64(0, props[Field(c.property)])
      /\ (c.fn = "get" /\ q.fn = "set" /\ c.property = q.property
            /\ c.property \in Properties) =>
            c.out = U64(0, Normalised(q.property, q.val))

\* a flag set to 2^32 and read back as 1
C21_Witness ==
  /\ prop_prev.fn = "set" /\ prop_prev.property = "sdi_420_in"
  /\ prop_prev.val = U64(1, 0)
  /\ prop_call.fn = "get" /\ prop_call.property = "sdi_420_in"
  /\ prop_call.ret = 0 /\ prop_call.out = U64(0, 1)

(***************************************************************************)
(* C22                                                                     *)
(***************************************************************************)
\* the truncation deficit d: the source blanking less twice the sum of the
\* halved front porch, back porch and sync length
Deficit(m) ==
  SourceBlank(m)
    - 2 * ((m.hsync_start - m.hdisplay) \div 2 + (m.htotal - m.hsync_end) \div 2
           + (m.hsync_end - m.hsync_start) \div 2)

\* C22: for a valid horizontal timing the deficit d is between 0 and 3, and
\* the horizontal blanking of the record pushed to the timing generator is
\* the source blanking when d is even and the source blanking plus 3 native
\* pixels when d is odd: the front porch has been incremented d/2 times for
\* an even d and (d + 3)/2 times for an odd one, the back porch and the sync
\* length not at all.
C22_PushedBlank ==
  (Returned("configure") /\ ValidH(am)) =>
    LET d == Deficit(am)
        s == SourceBlank(am)
    IN  /\ d \in 0..3
        /\ RecordBlank(stc.sig) = IF d % 2 = 0 THEN s ELSE s + 3
        /\ RecordBlank(stc.sig) \in {s, s + 3}
        /\ Val(stc.sig.hfront_porch) =
             (am.hsync_start - am.hdisplay) \div 2
               + (IF d % 2 = 0 THEN d \div 2 ELSE (d + 3) \div 2)
        /\ Val(stc.sig.hback_porch) = (am.htotal - am.hsync_end) \div 2
        /\ Val(stc.sig.hsync_len) = (am.hsync_end - am.hsync_start) \div 2

\* three odd lengths: a deficit of 3, and a pushed blanking 3 above the source
C22_Witness ==
  /\ Returned("configure")
  /\ ValidH(am)
  /\ Deficit(am) = 3
  /\ RecordBlank(stc.sig) = SourceBlank(am) + 3

(***************************************************************************)
(* C23                                                                     *)
(***************************************************************************)
\* no operation is in progress
BetweenOperations == pc \in {"idle", "unbound"}

\* the operation in progress or last done has written the interrupt-enable
\* register
WroteIrqEnable ==
  \E i \in 1..Len(trace) : IsWrite(trace[i]) /\ trace[i].reg = WREG_IRQ_ENABLE

\* enabled by a commit that a disable preceded, with no configure in between
EnabledWithoutInterrupts ==
  /\ Returned("commit")
  /\ last_op = "disable"
  /\ regs[WREG_CORE_ENABLE] = 1
  /\ regs[WREG_AXI_S_VID_ENABLE] = 1
  /\ regs[WREG_IRQ_ENABLE] = 0

\* C23: between operations the interrupt-enable register is 1 exactly when
\* the most recent of probe, configure, disable and detach was a configure,
\* and the mask is then overflow|underflow without the stream-locked bit;
\* probe has written 0 by the time the handler is registered; commit never
\* writes the register, so a commit that follows a configure ends with
\* interrupts enabled, and one that follows a disable ends with the pipeline
\* enabled and interrupts disabled.
C23_IrqEnableHistory ==
  /\ regs[WREG_IRQ_ENABLE] \in {0, 1}
  /\ BetweenOperations =>
        (regs[WREG_IRQ_ENABLE] = 1 <=> last_op = "configure")
  /\ (BetweenOperations /\ last_op = "configure") =>
        /\ regs[WREG_IRQ_MASK] = AXI_S_VID_OVERFLOW_INTR + AXI_S_VID_UNDERFLOW_INTR
        /\ ~BitSet(regs[WREG_IRQ_MASK], AXI_S_VID_LOCKED_INTR)
  /\ irq_pc = "unregistered" => op = "probe" /\ last_op = "probe"
  /\ (op = "probe" /\ irq_pc # "unregistered") =>
        trace = << W(WREG_IRQ_ENABLE, 0) >> /\ regs[WREG_IRQ_ENABLE] = 0
  /\ op = "commit" =>
        ~WroteIrqEnable /\ regs[WREG_IRQ_ENABLE] = prev.regs[WREG_IRQ_ENABLE]
  /\ (Returned("commit") /\ prev.op = "configure") =>
        regs[WREG_AXI_S_VID_ENABLE] = 1 /\ regs[WREG_IRQ_ENABLE] = 1
  /\ (Returned("commit") /\ last_op \in {"disable", "probe"}) =>
        regs[WREG_AXI_S_VID_ENABLE] = 1 /\ regs[WREG_IRQ_ENABLE] = 0

\* a configure, then a disable, then a commit with no configure before it
C23_Witness ==
  /\ EnabledWithoutInterrupts
  /\ prev.op = "disable"
  /\ prev.regs[WREG_IRQ_MASK] = IRQ_EN_MASK

(***************************************************************************)
(* C24                                                                     *)
(***************************************************************************)
ValidV(m) ==
  m.vdisplay <= m.vsync_start /\ m.vsync_start <= m.vsync_end /\ m.vsync_end <= m.vtotal

\* the u32 field u holds the integer x, which is not negative
HoldsTrue(u, x) == x >= 0 /\ u = U32(x) /\ Val(u) = x

\* the lines of one field of an interlaced mode whose frame has vtotal lines
FieldLines(vtotal) ==
  CASE vtotal = 1125 -> 562
    [] vtotal = 625 -> 312
    [] vtotal = 525 -> 262

\* C24 as stated: for a timing with hdisplay <= hsync_start <= hsync_end <=
\* htotal and vdisplay <= vsync_start <= vsync_end <= vtotal, every porch and
\* sync length of the pushed record is the true, non-negative integer
\* result, the interlaced vertical back-porch (562, 312 or 262 less
\* vsync_end) included: nothing has wrapped around in 32 bits.
C24_NoWrap ==
  (Returned("configure") /\ ValidH(am) /\ ValidV(am)) =>
    /\ HoldsTrue(stc.sig.hsync_len, (am.hsync_end - am.hsync_start) \div 2)
    /\ HoldsTrue(stc.sig.hback_porch, (am.htotal - am.hsync_end) \div 2)
    /\ stc.sig.hfront_porch.hi = 0
    /\ HoldsTrue(stc.sig.vfront_porch, am.vsync_start - am.vdisplay)
    /\ HoldsTrue(stc.sig.vsync_len, am.vsync_end - am.vsync_start)
    /\ "INTERLACE" \notin am.flags =>
         HoldsTrue(stc.sig.vback_porch, am.vtotal - am.vsync_end)
    /\ ("INTERLACE" \in am.flags /\ am.vtotal \in InterlacedTable) =>
         HoldsTrue(stc.sig.vback_porch, FieldLines(am.vtotal) - am.vsync_end)

====
